---- MODULE Spec2Model ----
(***************************************************************************)
(* Monthly-rate pipeline of ix_result (main.py, combined_processor.py,      *)
(* read_csv_file.py):                                                      *)
(* read_csv -> flatten_df_columns -> DateTime index -> resample/diff/rates  *)
(* -> rename -> monthly index adjustment -> to_csv.                         *)
(*                                                                         *)
(* Conventions of the model                                                *)
(*   - a cell is <<kind, number, text>> with kind "num", "nan" or "str";   *)
(*   - a timestamp is a count of half days since 1 January 2022, so    *)
(*     that fractional (x.5) day offsets and times of day are kept;        *)
(*   - a rounded value (n_decimals = 2) is kept as a count of hundredths.  *)
(***************************************************************************)
EXTENDS Integers, Sequences, FiniteSets, TLC

VARIABLES pc, data_scope, impl, csv, df_flat, df_reflat, df, df_mr, df_out, err, written,
          file_found, save_intermediate, months_offset,
          field_csv, wells_csv, process_field, process_wells, results

\* one run of a pipeline on one file
runVars == <<data_scope, impl, csv, df_flat, df_reflat, df, df_mr, df_out,
             file_found, months_offset>>

\* the arguments and the returned dict of process_all_data
batchVars == <<field_csv, wells_csv, process_field, process_wells, results>>

vars == <<pc, err, written, save_intermediate, runVars, batchVars>>

-----------------------------------------------------------------------------
(* Bounds of the explored inputs *)

\* most rows of a single-entity table
MaxRows == 3
\* most rows of a two-well table
MaxWellRows == 4
\* report steps of the tables sampled once a month
MaxSteps == 6

-----------------------------------------------------------------------------
(* Cells *)

Num(v) == <<"num", v, "">>
Str(s) == <<"str", 0, s>>
NaN == <<"nan", 0, "">>

IsNum(c) == c[1] = "num"
IsNaN(c) == c[1] = "nan"
IsStr(c) == c[1] = "str"

Range(s) == {s[i] : i \in 1..Len(s)}

SetMin(S) == CHOOSE x \in S : \A y \in S : x <= y
SetMax(S) == CHOOSE x \in S : \A y \in S : x >= y

RECURSIVE SumSeq(_)
SumSeq(s) == IF s = <<>> THEN 0 ELSE Head(s) + SumSeq(Tail(s))

RECURSIVE Flat(_)
\* concatenation of a sequence of sequences
Flat(ss) == IF ss = <<>> THEN <<>> ELSE Head(ss) \o Flat(Tail(ss))

\* the subsequence of s on the positions in keep, order kept
SelectIdx(s, keep) ==
  LET F[i \in 0..Len(s)] ==
        IF i = 0 THEN <<>>
        ELSE IF i \in keep THEN Append(F[i - 1], s[i]) ELSE F[i - 1]
  IN F[Len(s)]

\* the members of a set S of positions 1..n in ascending order
SortedSeq(S) ==
  IF S = {} THEN <<>> ELSE SelectIdx([i \in 1..SetMax(S) |-> i], S)

-----------------------------------------------------------------------------
(* Python strings *)

\* sub in s
Contains(s, sub) ==
  \E i \in 0..(Len(s) - Len(sub)) : SubSeq(s, i + 1, i + Len(sub)) = sub

\* sep.join(parts)
Join(parts, sep) ==
  LET F[i \in 0..Len(parts)] ==
        IF i = 0 THEN ""
        ELSE IF i = 1 THEN parts[1]
        ELSE F[i - 1] \o sep \o parts[i]
  IN F[Len(parts)]

\* s.strip("_")
Strip(s) ==
  LET keep == {i \in 1..Len(s) : SubSeq(s, i, i) # "_"}
  IN IF keep = {} THEN "" ELSE SubSeq(s, SetMin(keep), SetMax(keep))

CUML_PREFIX == "CUML"
PRESSURE_PREFIX == "PRESSURE"

\* what iterating a column key yields: the levels of a header tuple
PartsOfTuple(col) == col
\* what iterating a column key yields: the characters of a str
PartsOfStr(name) == [i \in 1..Len(name) |-> SubSeq(name, i, i)]

\* "_".join([str(c) for c in col if "Unnamed" not in str(c)]).strip("_")
FlattenName(parts) ==
  Strip(Join(SelectIdx(parts, {i \in 1..Len(parts) : ~Contains(parts[i], "Unnamed")}), "_"))

-----------------------------------------------------------------------------
(* Calendar *)

\* month m counts from January 2022 (m = 0); four years are covered
Months == 0..47

YearOf(m) == 2022 + (m \div 12)
MonthNo(m) == (m % 12) + 1

IsLeap(y) == (y % 4 = 0) /\ ((y % 100 # 0) \/ (y % 400 = 0))

\* DatetimeIndex.days_in_month
DaysInMonth(m) ==
  IF MonthNo(m) = 2 THEN (IF IsLeap(YearOf(m)) THEN 29 ELSE 28)
  ELSE IF MonthNo(m) \in {4, 6, 9, 11} THEN 30 ELSE 31

RECURSIVE MonthStartsUpTo(_)
\* the day numbers of the first days of months 0..n
MonthStartsUpTo(n) ==
  IF n = 0 THEN <<0>>
  ELSE LET prev == MonthStartsUpTo(n - 1) IN Append(prev, prev[n] + DaysInMonth(n - 1))

MonthStarts == MonthStartsUpTo(48)

\* day number of the first day of month m
MonthStart(m) == MonthStarts[m + 1]

RECURSIVE MonthOfDaysUpTo(_)
\* for every day of months 0..n, in order, the month it lies in
MonthOfDaysUpTo(n) ==
  (IF n = 0 THEN <<>> ELSE MonthOfDaysUpTo(n - 1)) \o [d \in 1..DaysInMonth(n) |-> n]

MonthOfDays == MonthOfDaysUpTo(47)

DayOf(y, mo, d) == MonthStart((y - 2022) * 12 + (mo - 1)) + (d - 1)

\* Timestamp.normalize(): midnight of the same day
Normalize(ts) == 2 * (ts \div 2)

\* the calendar month a timestamp lies in
MonthOf(ts) == MonthOfDays[(ts \div 2) + 1]

\* the month-end label of month m (midnight of its last day)
MonthEnd(m) == 2 * (MonthStart(m + 1) - 1)

-----------------------------------------------------------------------------
(* Input tables: what pd.read_csv(path, header=[0, 1, 2]) hands over *)

\* pandas' name of an empty header cell, "Unnamed: <n>_level_<k>"
UnnamedLabel == "Unnamed: 0_level_1"

H_DATE == <<"DATE", UnnamedLabel, UnnamedLabel>>
H_TIME == <<"Time", UnnamedLabel, UnnamedLabel>>
H_ETYPE == <<"Entity Type", UnnamedLabel, UnnamedLabel>>
H_ENAME == <<"Entity Name", UnnamedLabel, UnnamedLabel>>
H_CUML == <<"FOPT", "OIL_PRODUCTION_CUML", "STB">>
H_PRES == <<"FPR", "PRESSURE", "PSIA">>
\* a measure that is neither cumulative nor a pressure
H_WCT == <<"FWCT", "WATER_CUT", UnnamedLabel>>
\* a measure whose marker is written in lower case
H_LOWER == <<"FWPT", "cuml", "STB">>
\* the empty trailing column of the export
H_EMPTY == <<UnnamedLabel, UnnamedLabel, UnnamedLabel>>

ExtraHeaders == {H_WCT, H_LOWER}

HeaderWith(extra) == <<H_DATE, H_TIME, H_ETYPE, H_ENAME, H_CUML, H_PRES, extra, H_EMPTY>>

\* Time offsets of the report steps, in half days: 0, 11.5, 31 and 40 days
SlotTimes == <<0, 23, 62, 80>>
Slots == 1..Len(SlotTimes)

\* simulation start dates: 2023-01-20 12:00, 2024-01-20, 2023-12-15
Dates == {2 * DayOf(2023, 1, 20) + 1, 2 * DayOf(2024, 1, 20), 2 * DayOf(2023, 12, 15)}

CumVals == {Num(31), Num(59), Num(60), NaN}
PresBySlot == <<10, 13, 20, 27>>
CumBySlot == <<31, 31, 59, 60>>
NameShift(name) == IF name = "B" THEN 100 ELSE 0

\* one report step: DATE is the calendar date of the step, Time its offset
StepRow(name, d0, t, cum, pres, extra) ==
  << Num(d0 + 2 * (t \div 2)), Num(t), Str("WELL"), Str(name), cum, pres, extra, NaN >>

MkRow(name, d0, k, cum, pres, extra) == StepRow(name, d0, SlotTimes[k], cum, pres, extra)

Reverse(s) == [i \in 1..Len(s) |-> s[Len(s) + 1 - i]]

SlotSets(n) == {S \in SUBSET Slots : S # {} /\ Cardinality(S) <= n}

\* single entity, every cumulative value free
RichRows ==
  { [k \in 1..Cardinality(DOMAIN cum) |->
       LET slot == SortedSeq(DOMAIN cum)[k]
       IN MkRow("A", d0, slot, cum[slot], Num(PresBySlot[slot]), Num(5))] :
    cum \in UNION {[S -> CumVals] : S \in SlotSets(MaxRows)}, d0 \in Dates }

PlainRows(name, d0, S, extra) ==
  [k \in 1..Cardinality(S) |->
     LET slot == SortedSeq(S)[k]
     IN MkRow(name, d0, slot, Num(CumBySlot[slot] + NameShift(name)),
              Num(PresBySlot[slot] + NameShift(name)), extra)]

RECURSIVE Interleave(_, _)
\* the rows of two wells alternating, as an export written step by step
Interleave(x, y) == IF x = <<>> THEN y ELSE <<Head(x)>> \o Interleave(y, Tail(x))

\* two wells, values fixed by the report step, one well after the other
WellRows ==
  { PlainRows("A", dA, SA, Num(5)) \o PlainRows("B", dB, SB, Num(5)) :
    << SA, SB >> \in { p \in SlotSets(MaxWellRows) \X SlotSets(MaxWellRows) :
                        Cardinality(p[1]) + Cardinality(p[2]) <= MaxWellRows },
    << dA, dB >> \in Dates \X Dates }

\* two wells, their rows alternating
MixedWellRows ==
  { Interleave(PlainRows("A", dA, SA, Num(5)), PlainRows("B", dB, SB, Num(5))) :
    << SA, SB >> \in { p \in SlotSets(MaxWellRows) \X SlotSets(MaxWellRows) :
                        Cardinality(p[1]) + Cardinality(p[2]) <= MaxWellRows },
    << dA, dB >> \in Dates \X Dates }

\* one entity reporting every 31 days from 2023-12-15, some steps left out
MonthlyRows ==
  { LET at == SortedSeq(S)
    IN [k \in 1..Len(at) |->
          StepRow("A", 2 * DayOf(2023, 12, 15), 62 * (at[k] - 1),
                  Num(40 * at[k] * at[k]), Num(10 * at[k] + 3), Num(5))] :
    S \in (SUBSET (1..MaxSteps)) \ {{}} }

ExtraCells == {Num(5), NaN, Str("OPEN")}

\* the extra column holds a number, text, or misses every value but the first
VariantRows ==
  { LET base == PlainRows("A", 2 * DayOf(2023, 1, 20), S, x)
    IN IF x = NaN THEN [base EXCEPT ![1][7] = Num(5)] ELSE base :
    S \in {{1}, {1, 2}, {1, 3}, {1, 3, 4}}, x \in ExtraCells }

Table(header, rows, lit) == [header |-> header, rows |-> rows, int_literals |-> lit]

Tables ==
  { Table(HeaderWith(H_WCT), r, FALSE) : r \in RichRows }
  \cup { Table(HeaderWith(H_WCT), r, FALSE) : r \in {Reverse(x) : x \in RichRows} }
  \cup { Table(HeaderWith(H_WCT), r, FALSE) : r \in WellRows }
  \cup { Table(HeaderWith(H_WCT), r, FALSE) : r \in {Reverse(x) : x \in WellRows} }
  \cup { Table(HeaderWith(H_WCT), r, FALSE) : r \in MixedWellRows }
  \cup { Table(HeaderWith(H_WCT), r, FALSE) : r \in MonthlyRows }
  \cup { Table(HeaderWith(h), r, lit) : h \in ExtraHeaders, r \in VariantRows, lit \in BOOLEAN }

\* a file whose export lacks the k-th column
WithoutColumn(t, k) ==
  [t EXCEPT !.header = SelectIdx(t.header, (1..Len(t.header)) \ {k}),
            !.rows = [r \in 1..Len(t.rows) |->
                        SelectIdx(t.rows[r], (1..Len(t.rows[r])) \ {k})]]

\* one well over two months; two wells over two months; the same with text in
\* the extra column
OneWellTable == Table(HeaderWith(H_WCT), PlainRows("A", 2 * DayOf(2023, 1, 20), {1, 3}, Num(5)), FALSE)
TwoWellTable ==
  Table(HeaderWith(H_WCT),
        Interleave(PlainRows("A", 2 * DayOf(2023, 1, 20), {1, 3}, Num(5)),
                   PlainRows("B", 2 * DayOf(2023, 1, 20), {1, 3, 4}, Num(5))), FALSE)
TextTable == Table(HeaderWith(H_WCT), PlainRows("A", 2 * DayOf(2023, 1, 20), {1, 3}, Str("OPEN")), FALSE)

\* text where the cumulative values should be
TextCumulTable ==
  [OneWellTable EXCEPT !.rows = [r \in 1..Len(OneWellTable.rows) |->
                                   [OneWellTable.rows[r] EXCEPT ![5] = Str("SHUT")]]]

\* files without the DATE column, without the Time column
ShapeFaultTables == {WithoutColumn(OneWellTable, 1), WithoutColumn(TwoWellTable, 2)}

FaultTables == {OneWellTable, TwoWellTable, TextTable, TextCumulTable} \cup ShapeFaultTables

EmptyTable == Table(<<>>, <<>>, FALSE)

\* a path: whether a file is there, and what it holds
File(exists, table) == [exists |-> exists, table |-> table]
NoFile == File(FALSE, EmptyTable)
FaultFiles == {NoFile} \cup {File(TRUE, t) : t \in FaultTables}

-----------------------------------------------------------------------------
(* DataFrames: columns, their dtypes, the index (empty before set_index)    *)
(* and the rows                                                            *)

Frame(columns, dtypes, index, rows) ==
  [columns |-> columns, dtypes |-> dtypes, index |-> index, rows |-> rows]

NoFrame == Frame(<<>>, <<>>, <<>>, <<>>)

\* position of the column called name, 0 when there is none
ColPos(f, name) ==
  IF \E i \in 1..Len(f.columns) : f.columns[i] = name
  THEN CHOOSE i \in 1..Len(f.columns) : f.columns[i] = name
  ELSE 0

HasCol(f, name) == ColPos(f, name) # 0

\* df.loc[:, mask]: the columns at the positions in keep
SelectCols(f, keep) ==
  LET at == SortedSeq(keep)
  IN Frame([j \in 1..Len(at) |-> f.columns[at[j]]], [j \in 1..Len(at) |-> f.dtypes[at[j]]],
           f.index, [r \in 1..Len(f.rows) |-> [j \in 1..Len(at) |-> f.rows[r][at[j]]]])

\* df.loc[mask, :]: the rows at the positions in keep
SelectRows(f, keep) ==
  LET at == SortedSeq(keep)
  IN Frame(f.columns, f.dtypes,
           IF f.index = <<>> THEN <<>> ELSE [j \in 1..Len(at) |-> f.index[at[j]]],
           [j \in 1..Len(at) |-> f.rows[at[j]]])

\* df.drop(columns=names)
DropCols(f, names) == SelectCols(f, {i \in 1..Len(f.columns) : f.columns[i] \notin names})

\* pd.concat of frames with the same columns
Concat(fs) ==
  IF fs = <<>> THEN NoFrame
  ELSE Frame(fs[1].columns, fs[1].dtypes,
             Flat([i \in 1..Len(fs) |-> fs[i].index]),
             Flat([i \in 1..Len(fs) |-> fs[i].rows]))

\* the dtype read_csv infers for a column
InferDtype(cells, int_literals) ==
  IF \E i \in 1..Len(cells) : IsStr(cells[i]) THEN "object"
  ELSE IF (\E i \in 1..Len(cells) : IsNaN(cells[i])) \/ ~int_literals THEN "float64"
  ELSE "int64"

\* pd.read_csv(file_path, header=[0, 1, 2])
ReadCsvFrame(t) ==
  Frame(t.header,
        [c \in 1..Len(t.header) |->
           InferDtype([r \in 1..Len(t.rows) |-> t.rows[r][c]], t.int_literals)],
        <<>>, t.rows)

\* flatten_df_columns, Parts giving what iterating a column key yields
FlattenWith(f, Parts(_)) ==
  LET names == [c \in 1..Len(f.columns) |-> FlattenName(Parts(f.columns[c]))]
  IN SelectCols([f EXCEPT !.columns = names], {c \in 1..Len(names) : names[c] # ""})

\* flatten_df_columns of a frame whose column keys are tuples of levels
flatten_df_columns(f) == FlattenWith(f, PartsOfTuple)

\* flatten_df_columns of a frame whose column keys are already strings
flatten_flat_columns(f) == FlattenWith(f, PartsOfStr)

-----------------------------------------------------------------------------
(* Entity Time-Indexer *)

\* Series.unique(): the values in order of first appearance
Unique(cells) ==
  SelectIdx(cells, {i \in 1..Len(cells) : \A j \in 1..(i - 1) : cells[j] # cells[i]})

Column(f, name) == [r \in 1..Len(f.rows) |-> f.rows[r][ColPos(f, name)]]

\* origin = dates.min().normalize(); dt = origin + pd.to_timedelta(Time, unit="D");
\* insert DateTime, drop the columns, set_index("DateTime")
IndexByDateTime(f, drop_columns) ==
  LET dates == Column(f, "DATE")
      times == Column(f, "Time")
      origin == Normalize(SetMin({dates[r][2] : r \in 1..Len(dates)}))
      dt == [r \in 1..Len(f.rows) |-> origin + times[r][2]]
  IN [DropCols(f, drop_columns) EXCEPT !.index = dt]

\* _process_field_datetime / create_datetime_index
process_field_datetime(f) ==
  IndexByDateTime(f, {"DATE", "Time", "Entity Type", "Entity Name"})

\* df.loc[df["Entity Name"] == name, :]
RowsOfEntity(f, name) ==
  LET names == Column(f, "Entity Name")
  IN SelectRows(f, {r \in 1..Len(f.rows) : names[r] = name})

\* the well indexer with one origin for the whole table
process_well_datetime_shared_origin(f) ==
  LET names == Unique(Column(f, "Entity Name"))
      all == IndexByDateTime(f, {"DATE", "Time", "Entity Type"})
  IN Concat([k \in 1..Len(names) |-> RowsOfEntity(all, names[k])])

\* _process_well_datetime / create_datetime_index_wells
process_well_datetime(f) ==
  LET names == Unique(Column(f, "Entity Name"))
  IN Concat([k \in 1..Len(names) |->
               IndexByDateTime(RowsOfEntity(f, names[k]), {"DATE", "Time", "Entity Type"})])

-----------------------------------------------------------------------------
(* Monthly Rate Engine *)

\* round(num / den, n_decimals) in hundredths, ties to the even hundredth
Round2(num, den) ==
  LET n == 100 * num
      q == n \div den
      r == n % den
  IN IF 2 * r < den THEN q
     ELSE IF 2 * r > den THEN q + 1
     ELSE IF q % 2 = 0 THEN q ELSE q + 1

\* row p stands no later than row q once resample has sorted the index (a stable sort)
Before(f, p, q) ==
  \/ f.index[p] < f.index[q]
  \/ f.index[p] = f.index[q] /\ p <= q

\* the months of the bins of resample("ME"): every month from the first to the last timestamp
BinMonths(f) ==
  LET ms == {MonthOf(f.index[p]) : p \in 1..Len(f.index)}
  IN IF ms = {} THEN <<>>
     ELSE [b \in 1..(SetMax(ms) - SetMin(ms) + 1) |-> SetMin(ms) + b - 1]

\* the last value that is not missing on or before the end of month m
LastUpTo(f, c, m) ==
  LET P == {p \in 1..Len(f.rows) : MonthOf(f.index[p]) <= m /\ ~IsNaN(f.rows[p][c])}
  IN IF P = {} THEN NaN
     ELSE f.rows[CHOOSE p \in P : \A q \in P : Before(f, q, p)][c]

\* .last() of column c in the bin of month m: the last value that is not missing
LastIn(f, c, m) ==
  LET P == {p \in 1..Len(f.rows) : MonthOf(f.index[p]) = m /\ ~IsNaN(f.rows[p][c])}
  IN IF P = {} THEN NaN
     ELSE f.rows[CHOOSE p \in P : \A q \in P : Before(f, q, p)][c]

\* df.resample("ME").last()
ResampleLast(f) ==
  LET bins == BinMonths(f)
  IN Frame(f.columns, f.dtypes, [b \in 1..Len(bins) |-> MonthEnd(bins[b])],
           [b \in 1..Len(bins) |-> [c \in 1..Len(f.columns) |-> LastIn(f, c, bins[b])]])

\* the last value of the bin in the place of its mean
MeanInTakesLast(f, c, m) ==
  IF IsNaN(LastIn(f, c, m)) THEN <<0, 0>> ELSE <<LastIn(f, c, m)[2], 1>>

\* .mean() of column c in the bin of month m, as <<sum, count>> of the values not missing
MeanIn(f, c, m) ==
  LET P == {p \in 1..Len(f.rows) : MonthOf(f.index[p]) = m /\ IsNum(f.rows[p][c])}
      at == SortedSeq(P)
  IN << SumSeq([k \in 1..Len(at) |-> f.rows[at[k]][c][2]]), Cardinality(P) >>

\* the subtraction with its operands exchanged
DiffCellReversed(cur, prev) ==
  IF IsNaN(cur) \/ IsNaN(prev) THEN NaN ELSE Num(prev[2] - cur[2])

\* the subtraction DataFrame.diff applies to a cell and the cell one row above
DiffCell(cur, prev) ==
  IF IsNaN(cur) \/ IsNaN(prev) THEN NaN ELSE Num(cur[2] - prev[2])

\* DataFrame.diff raises TypeError when it subtracts text
DiffRaises(g) ==
  \E b \in 2..Len(g.rows) : \E c \in 1..Len(g.columns) :
    IsStr(g.rows[b][c]) \/ IsStr(g.rows[b - 1][c])

\* diff that keeps the first row (as if differenced against zero)
DiffKeepsFirst(g) ==
  [g EXCEPT !.rows = [b \in 1..Len(g.rows) |-> [c \in 1..Len(g.columns) |->
                        IF b = 1 THEN g.rows[b][c] ELSE DiffCell(g.rows[b][c], g.rows[b - 1][c])]]]

\* df.diff()
Diff(g) ==
  [g EXCEPT !.rows = [b \in 1..Len(g.rows) |-> [c \in 1..Len(g.columns) |->
                        IF b = 1 THEN NaN ELSE DiffCell(g.rows[b][c], g.rows[b - 1][c])]]]

\* dropna(how="all"): only the rows missing every value are dropped
DropNaAll(g) ==
  SelectRows(g, {b \in 1..Len(g.rows) : \E c \in 1..Len(g.columns) : ~IsNaN(g.rows[b][c])})

\* dropna(subset=...): only the cumulative and pressure columns decide
DropNaMeasures(g) ==
  SelectRows(g, {b \in 1..Len(g.rows) : \A c \in 1..Len(g.columns) :
                   (Contains(g.columns[c], CUML_PREFIX) \/ Contains(g.columns[c], PRESSURE_PREFIX))
                     => ~IsNaN(g.rows[b][c])})

\* df.dropna(): the rows without a missing value
DropNa(g) ==
  SelectRows(g, {b \in 1..Len(g.rows) : \A c \in 1..Len(g.columns) : ~IsNaN(g.rows[b][c])})

\* days_in_month with February always 28 days long
days_in_month_no_leap(ts) ==
  IF MonthNo(MonthOf(ts)) = 2 THEN 28 ELSE DaysInMonth(MonthOf(ts))

\* df_monthly_prod.index.days_in_month, for one index entry
days_in_month(ts) == DaysInMonth(MonthOf(ts))

\* the branch of the column loop a column takes
RoleOf(col, dtype, DtypeOk(_)) ==
  IF Contains(col, CUML_PREFIX) /\ DtypeOk(dtype) THEN "rate"
  ELSE IF Contains(col, PRESSURE_PREFIX) /\ DtypeOk(dtype) THEN "mean"
  ELSE "none"

\* the body shared by the four rate functions: resample, diff, dropna, column loop
MonthlyRates(f, DtypeOk(_)) ==
  LET prod == DropNa(Diff(ResampleLast(f)))
      role == [c \in 1..Len(f.columns) |-> RoleOf(f.columns[c], f.dtypes[c], DtypeOk)]
      out == SortedSeq({c \in 1..Len(f.columns) : role[c] # "none"})
      Cell(b, c) ==
        IF role[c] = "rate"
        THEN Num(Round2(prod.rows[b][c][2], days_in_month(prod.index[b])))
        ELSE LET sc == MeanIn(f, c, MonthOf(prod.index[b]))
             IN IF sc[2] = 0 THEN NaN ELSE Num(Round2(sc[1], sc[2]))
  IN Frame([j \in 1..Len(out) |-> f.columns[out[j]]], [j \in 1..Len(out) |-> "float64"],
           prod.index,
           [b \in 1..Len(prod.rows) |-> [j \in 1..Len(out) |-> Cell(b, out[j])]])

\* df[col].dtype == float
IsFloat(dtype) == dtype = "float64"
\* pd.api.types.is_numeric_dtype(df[col])
IsNumericDtype(dtype) == dtype \in {"float64", "int64"}
\* the well functions test no dtype
AnyDtype(dtype) == TRUE

\* read_csv_file.calculate_monthly_rates
calculate_monthly_rates(f) == MonthlyRates(f, AnyDtype)

\* main._calculate_field_monthly_rates
calculate_field_monthly_rates(f) == MonthlyRates(f, IsFloat)
\* combined_processor.calculate_monthly_rates_field
calculate_monthly_rates_field(f) == MonthlyRates(f, IsNumericDtype)
FieldRaises(f) == DiffRaises(ResampleLast(f))

\* one turn of the loop over df["Entity Name"].unique(): the frame of one well
WellFrame(f, name) == DropCols(RowsOfEntity(f, name), {"Entity Name"})

\* the label column appended after the measures
InsertWellNameLast(g, name) ==
  Frame(g.columns \o <<"WELL_NAME">>, g.dtypes \o <<"object">>, g.index,
        [b \in 1..Len(g.rows) |-> g.rows[b] \o <<name>>])

\* df_mr.insert(0, "WELL_NAME", name)
InsertWellName(g, name) ==
  Frame(<<"WELL_NAME">> \o g.columns, <<"object">> \o g.dtypes, g.index,
        [b \in 1..Len(g.rows) |-> <<name>> \o g.rows[b]])

\* main._calculate_well_monthly_rates / combined_processor.calculate_monthly_rates_wells
calculate_well_monthly_rates(f) ==
  LET names == Unique(Column(f, "Entity Name"))
  IN Concat([k \in 1..Len(names) |->
               InsertWellName(MonthlyRates(WellFrame(f, names[k]), AnyDtype), names[k])])

WellRaises(f) ==
  \E name \in Range(Column(f, "Entity Name")) : DiffRaises(ResampleLast(WellFrame(f, name)))

-----------------------------------------------------------------------------
(* Column Renamer and Index Formatter *)

\* main._get_column_mapping(FIELD_SCOPE)
MainFieldMapping ==
  "FGIT_GAS_INJECTION_CUML_MSCF" :> "FIELD_GAS_INJECTION_RATE(MSCF/DAY)" @@
  "FWPT_WATER_PRODUCTION_CUML_STB" :> "FIELD_WATER_PRODUCTION_RATE(STB/DAY)" @@
  "FWIT_WATER_INJECTION_CUML_STB" :> "FIELD_WATER_INJECTION_RATE(STB/DAY)" @@
  "FGPT_GAS_PRODUCTION_CUML_MSCF" :> "FIELD_GAS_PRODUCTION_RATE(MSCF/DAY)" @@
  "FOPT_OIL_PRODUCTION_CUML_STB" :> "FIELD_OIL_PRODUCTION_RATE(STB/DAY)" @@
  "FPR_PRESSURE_PSIA" :> "AVG_RES_PRESSURE(PSIA)"

\* combined_processor.rename_columns_field
CombinedFieldMapping ==
  "FGIT_GAS_INJECTION_CUML_MSCF" :> "FIELD_GAS_INJECTION_RATE(MSCF/DAY)" @@
  "FWPT_WATER_PRODUCTION_CUML_STB" :> "FIELD_WATER_PRODUCTION_RATE(STB/DAY)" @@
  "FWIT_WATER_INJECTION_CUML_STB" :> "FIELD_WATER_INJECTION_RATE(STB/DAY)" @@
  "FGPT_GAS_PRODUCTION_CUML_MSCF" :> "FIELD_GAS_PRODUCTION_RATE(MSCF/DAY)" @@
  "FOPT_OIL_PRODUCTION_CUML_STB" :> "FIELD_OIL_PRODUCTION_RATE(STB/DAY)" @@
  "WBHP_BOTTOM_HOLE_PRESSURE_PSIA" :> "AVG_RESERVOIR_PRESSURE(PSIA)"

\* main._get_column_mapping(WELL_SCOPE) and combined_processor.rename_columns_wells
WellMapping ==
  "WGIT_GAS_INJECTION_CUML_MSCF" :> "WELL_GAS_INJECTION_RATE(MSCF/DAY)" @@
  "WWPT_WATER_PRODUCTION_CUML_STB" :> "WELL_WATER_PRODUCTION_RATE(STB/DAY)" @@
  "WWIT_WATER_INJECTION_CUML_STB" :> "WELL_WATER_INJECTION_RATE(STB/DAY)" @@
  "WGPT_GAS_PRODUCTION_CUML_MSCF" :> "WELL_GAS_PRODUCTION_RATE(MSCF/DAY)" @@
  "WOPT_OIL_PRODUCTION_CUML_STB" :> "WELL_OIL_PRODUCTION_RATE(STB/DAY)" @@
  "WBHP_BOTTOM_HOLE_PRESSURE_PSIA" :> "WELL_BOTTOM_HOLE_PRESSURE(PSIA)"

\* df.rename(columns=column_mapping): names outside the mapping pass through
RenameColumns(g, mapping) ==
  [g EXCEPT !.columns = [c \in 1..Len(g.columns) |->
     IF g.columns[c] \in DOMAIN mapping THEN mapping[g.columns[c]] ELSE g.columns[c]]]

\* to_period("Y").to_timestamp(): midnight of the first day of the year
PeriodStartOfYear(ts) == 2 * MonthStart(12 * (MonthOf(ts) \div 12))

\* index.to_period("M").to_timestamp(): midnight of the first day of the month
PeriodStart(ts) == 2 * MonthStart(MonthOf(ts))

\* ts - pd.DateOffset(months=1): same day and time one month earlier, the day
\* clipped to the length of that month
MinusOneMonth(ts) ==
  LET m == MonthOf(ts)
      day == (ts \div 2) - MonthStart(m)
      clipped == IF day < DaysInMonth(m - 1) THEN day ELSE DaysInMonth(m - 1) - 1
  IN 2 * (MonthStart(m - 1) + clipped) + (ts % 2)

\* an offset that leaves the date where it is
PlusNothing(ts) == ts

\* ts + pd.offsets.MonthEnd(1): the next month end after the day of ts
PlusMonthEnd(ts) ==
  LET m == MonthOf(ts)
      last == MonthStart(m + 1) - 1
  IN IF ts \div 2 = last THEN 2 * (MonthStart(m + 2) - 1) + (ts % 2)
     ELSE 2 * last + (ts % 2)

\* main._adjust_monthly_index / combined_processor.format_monthly_index
adjust_monthly_index(g) ==
  [g EXCEPT !.index = [b \in 1..Len(g.index) |->
     PlusMonthEnd(MinusOneMonth(PeriodStart(g.index[b])))]]

\* months_offset values tried
Offsets == {0, 1, 2, 13}

RECURSIVE MinusMonths(_, _)
\* ts - pd.DateOffset(months=k), k >= 0
MinusMonths(ts, k) == IF k = 0 THEN ts ELSE MinusMonths(MinusOneMonth(ts), k - 1)

\* read_csv_file.format_monthly_index(df, months_offset)
format_monthly_index(g, k) ==
  [g EXCEPT !.index = [b \in 1..Len(g.index) |->
     IF k # 0 THEN MinusMonths(PeriodStart(g.index[b]), k) ELSE PeriodStart(g.index[b])]]

-----------------------------------------------------------------------------
(* The pipelines: main.gen_df_monthly_rates, combined_processor's            *)
(* process_field_data / process_wells_data / process_all_data, and           *)
(* read_csv_file.process_field_data                                          *)

FIELD_SCOPE == "FIELD"
WELL_SCOPE == "WELL"

\* an entry of the dict process_all_data returns: no key, None, or a table
Absent == [kind |-> "absent", table |-> NoFrame]
None == [kind |-> "none", table |-> NoFrame]
Some(t) == [kind |-> "table", table |-> t]

NoResults == [field |-> Absent, wells |-> Absent]

\* no batch call in progress
BatchIdle ==
  /\ field_csv = NoFile
  /\ wells_csv = NoFile
  /\ process_field = FALSE
  /\ process_wells = FALSE
  /\ results = NoResults

RunIdle ==
  /\ data_scope = FIELD_SCOPE
  /\ impl = "none"
  /\ csv = EmptyTable
  /\ file_found = FALSE
  /\ months_offset = 0
  /\ df_flat = NoFrame
  /\ df_reflat = NoFrame
  /\ df = NoFrame
  /\ df_mr = NoFrame
  /\ df_out = NoFrame

RunStart ==
  /\ pc = "start"
  /\ impl = "none"
  /\ months_offset = 0
  /\ df_flat = NoFrame
  /\ df_reflat = NoFrame
  /\ df = NoFrame
  /\ df_mr = NoFrame
  /\ df_out = NoFrame
  /\ err = "none"
  /\ written = {}
  /\ BatchIdle

\* a run on a file that is there, SAVE_INTERMEDIATE_DATA = False as configured
InitRates ==
  /\ RunStart
  /\ data_scope \in {FIELD_SCOPE, WELL_SCOPE}
  /\ csv \in Tables
  /\ file_found = TRUE
  /\ save_intermediate = FALSE

\* a run on a file that may be missing or lack a column, a data_scope that may
\* be neither FIELD nor WELL, intermediate saving on or off
InitFaults ==
  /\ RunStart
  /\ data_scope \in {FIELD_SCOPE, WELL_SCOPE, "OTHER"}
  /\ csv \in FaultTables
  /\ file_found \in BOOLEAN
  /\ save_intermediate \in BOOLEAN

\* a call of process_all_data
InitBatch ==
  /\ pc = "batch"
  /\ RunIdle
  /\ err = "none"
  /\ written = {}
  /\ field_csv \in FaultFiles
  /\ wells_csv \in FaultFiles
  /\ process_field \in BOOLEAN
  /\ process_wells \in BOOLEAN
  /\ save_intermediate \in BOOLEAN
  /\ results = NoResults

Init == InitRates \/ InitFaults \/ InitBatch

\* pd.read_csv(path, header=[0, 1, 2]) and flatten_df_columns
ReadCsv ==
  /\ pc = "start"
  /\ IF file_found
     THEN pc' = "flat" /\ err' = err /\ df_flat' = flatten_df_columns(ReadCsvFrame(csv))
     ELSE pc' = "failed" /\ err' = "FileNotFoundError" /\ df_flat' = df_flat
  /\ UNCHANGED <<data_scope, impl, csv, df_reflat, df, df_mr, df_out, written,
                 file_found, save_intermediate, months_offset, batchVars>>

\* flatten_df_columns called once more, on the flattened table
Reflatten ==
  /\ pc = "flat"
  /\ df_reflat' = flatten_flat_columns(df_flat)
  /\ pc' = "reflat"
  /\ UNCHANGED <<data_scope, impl, csv, df_flat, df, df_mr, df_out, err, written,
                 file_found, save_intermediate, months_offset, batchVars>>

Missing(f, names) == \E n \in names : ~HasCol(f, n)

\* the columns the indexers look up or drop
RequiredColumns == {"DATE", "Time", "Entity Type", "Entity Name"}

\* gen_dt_index(FIELD_SCOPE) / create_datetime_index
GenFieldIndex ==
  /\ pc = "flat"
  /\ data_scope = FIELD_SCOPE
  /\ IF Missing(df_flat, RequiredColumns)
     THEN pc' = "failed" /\ err' = "KeyError" /\ df' = df
     ELSE pc' = "indexed" /\ err' = err /\ df' = process_field_datetime(df_flat)
  /\ UNCHANGED <<data_scope, impl, csv, df_flat, df_reflat, df_mr, df_out, written,
                 file_found, save_intermediate, months_offset, batchVars>>

\* gen_dt_index(WELL_SCOPE) / create_datetime_index_wells
GenWellIndex ==
  /\ pc = "flat"
  /\ data_scope = WELL_SCOPE
  /\ IF Missing(df_flat, RequiredColumns)
     THEN pc' = "failed" /\ err' = "KeyError" /\ df' = df
     ELSE pc' = "indexed" /\ err' = err /\ df' = process_well_datetime(df_flat)
  /\ UNCHANGED <<data_scope, impl, csv, df_flat, df_reflat, df_mr, df_out, written,
                 file_found, save_intermediate, months_offset, batchVars>>

\* main.read_field_csv with a data_scope that is neither FIELD nor WELL
InvalidScope ==
  /\ pc = "flat"
  /\ data_scope \notin {FIELD_SCOPE, WELL_SCOPE}
  /\ impl' = "main"
  /\ pc' = "failed"
  /\ err' = "ValueError"
  /\ UNCHANGED <<data_scope, csv, df_flat, df_reflat, df, df_mr, df_out, written,
                 file_found, save_intermediate, months_offset, batchVars>>

\* main and combined_processor save the intermediate table before the rates
\* are computed, read_csv_file saves it after them
SavesFirst(who) == who # "read_csv_file"

\* a rate function run by the pipeline of module who, after the intermediate
\* table is saved when asked for: its result, or its TypeError
Calc(who, scope, raises, result) ==
  /\ pc = "indexed"
  /\ data_scope = scope
  /\ impl' = who
  /\ written' = IF save_intermediate /\ SavesFirst(who) THEN written \cup {"PRC"} ELSE written
  /\ IF raises
     THEN pc' = "failed" /\ err' = "TypeError" /\ df_mr' = df_mr
     ELSE pc' = "rates" /\ err' = err /\ df_mr' = result
  /\ UNCHANGED <<data_scope, csv, df_flat, df_reflat, df, df_out,
                 file_found, save_intermediate, months_offset, batchVars>>

\* main.get_df_monthly_rates(df, FIELD_SCOPE)
CalcFieldMain ==
  Calc("main", FIELD_SCOPE, FieldRaises(df), calculate_field_monthly_rates(df))

\* combined_processor.calculate_monthly_rates_field(df_field)
CalcFieldCombined ==
  Calc("combined", FIELD_SCOPE, FieldRaises(df), calculate_monthly_rates_field(df))

\* read_csv_file.calculate_monthly_rates(field_df)
CalcFieldReadCsvFile ==
  Calc("read_csv_file", FIELD_SCOPE, FieldRaises(df), calculate_monthly_rates(df))

\* main.get_df_monthly_rates(df, WELL_SCOPE)
CalcWellMain ==
  Calc("main", WELL_SCOPE, WellRaises(df), calculate_well_monthly_rates(df))

\* combined_processor.calculate_monthly_rates_wells(df_wells)
CalcWellCombined ==
  Calc("combined", WELL_SCOPE, WellRaises(df), calculate_well_monthly_rates(df))

ColumnMapping(who, scope) ==
  IF scope = WELL_SCOPE THEN WellMapping
  ELSE IF who = "main" THEN MainFieldMapping ELSE CombinedFieldMapping

\* main.format_df_monthly / rename_columns_* and format_monthly_index
FormatMonthly ==
  /\ pc = "rates"
  /\ impl # "read_csv_file"
  /\ df_out' = adjust_monthly_index(RenameColumns(df_mr, ColumnMapping(impl, data_scope)))
  /\ pc' = "formatted"
  /\ UNCHANGED <<data_scope, impl, csv, df_flat, df_reflat, df, df_mr, err, written,
                 file_found, save_intermediate, months_offset, batchVars>>

\* read_csv_file: rename_columns and format_monthly_index(df, months_offset)
FormatMonthlyOffset ==
  /\ pc = "rates"
  /\ impl = "read_csv_file"
  /\ \E k \in Offsets :
       /\ months_offset' = k
       /\ df_out' = format_monthly_index(RenameColumns(df_mr, CombinedFieldMapping), k)
  /\ pc' = "formatted"
  /\ UNCHANGED <<data_scope, impl, csv, df_flat, df_reflat, df, df_mr, err, written,
                 file_found, save_intermediate, batchVars>>

\* df_monthly_rates.to_csv(output_path, index=True); read_csv_file saves the
\* intermediate table here, just before
WriteCsv ==
  /\ pc = "formatted"
  /\ written' = written \cup {"MR"}
                \cup (IF save_intermediate /\ ~SavesFirst(impl) THEN {"PRC"} ELSE {})
  /\ pc' = "done"
  /\ UNCHANGED <<data_scope, impl, csv, df_flat, df_reflat, df, df_mr, df_out, err,
                 file_found, save_intermediate, months_offset, batchVars>>

\* what one call of process_field_data / process_wells_data ends with
Outcome(e, table, files) == [err |-> e, table |-> table, written |-> files]

\* combined_processor.process_field_data / process_wells_data on one file
RunCombined(file, scope, save) ==
  IF ~file.exists THEN Outcome("FileNotFoundError", NoFrame, {})
  ELSE
    LET flat == flatten_df_columns(ReadCsvFrame(file.table))
    IN IF Missing(flat, RequiredColumns) THEN Outcome("KeyError", NoFrame, {})
       ELSE
         LET d == IF scope = FIELD_SCOPE THEN process_field_datetime(flat)
                  ELSE process_well_datetime(flat)
             prc == IF save THEN {scope \o "_PRC"} ELSE {}
             raises == IF scope = FIELD_SCOPE THEN FieldRaises(d) ELSE WellRaises(d)
             rates == IF scope = FIELD_SCOPE THEN calculate_monthly_rates_field(d)
                      ELSE calculate_well_monthly_rates(d)
         IN IF raises THEN Outcome("TypeError", NoFrame, prc)
            ELSE Outcome("none",
                         adjust_monthly_index(RenameColumns(rates, ColumnMapping("combined", scope))),
                         prc \cup {scope \o "_MR"})

\* the exception classes a run can end with; all derive from Exception
ExceptionClasses == {"FileNotFoundError", "KeyError", "TypeError", "ValueError"}

\* the handlers of process_all_data catching FileNotFoundError alone
CatchesFileNotFoundOnly(e) == e = "FileNotFoundError"

\* except FileNotFoundError: ... except Exception: ...
Catches(e) == e = "FileNotFoundError" \/ e \in ExceptionClasses

\* results[key] after the try block of one scope
ResultOf(o) == IF o.err = "none" THEN Some(o.table) ELSE None

\* process_all_data, the block `if process_field:`
BatchField ==
  /\ pc = "batch"
  /\ IF process_field
     THEN LET o == RunCombined(field_csv, FIELD_SCOPE, save_intermediate)
          IN /\ written' = written \cup o.written
             /\ IF o.err = "none" \/ Catches(o.err)
                THEN /\ results' = [results EXCEPT !.field = ResultOf(o)]
                     /\ pc' = "batch_wells"
                     /\ err' = err
                ELSE /\ results' = results
                     /\ pc' = "failed"
                     /\ err' = o.err
     ELSE /\ pc' = "batch_wells"
          /\ UNCHANGED <<written, results, err>>
  /\ UNCHANGED <<runVars, save_intermediate, field_csv, wells_csv, process_field, process_wells>>

\* process_all_data, the block `if process_wells:` and `return results`
BatchWells ==
  /\ pc = "batch_wells"
  /\ IF process_wells
     THEN LET o == RunCombined(wells_csv, WELL_SCOPE, save_intermediate)
          IN /\ written' = written \cup o.written
             /\ IF o.err = "none" \/ Catches(o.err)
                THEN /\ results' = [results EXCEPT !.wells = ResultOf(o)]
                     /\ pc' = "returned"
                     /\ err' = err
                ELSE /\ results' = results
                     /\ pc' = "failed"
                     /\ err' = o.err
     ELSE /\ pc' = "returned"
          /\ UNCHANGED <<written, results, err>>
  /\ UNCHANGED <<runVars, save_intermediate, field_csv, wells_csv, process_field, process_wells>>

Next ==
  \/ ReadCsv
  \/ Reflatten
  \/ GenFieldIndex
  \/ GenWellIndex
  \/ InvalidScope
  \/ CalcFieldMain
  \/ CalcFieldCombined
  \/ CalcFieldReadCsvFile
  \/ CalcWellMain
  \/ CalcWellCombined
  \/ FormatMonthly
  \/ FormatMonthlyOffset
  \/ WriteCsv
  \/ BatchField
  \/ BatchWells

Spec == Init /\ [][Next]_vars

-----------------------------------------------------------------------------
(* Vocabulary of the properties: entities, their records in the indexed     *)
(* table df, and their rows in the rate table df_mr                        *)

RatesDone == pc \in {"rates", "formatted", "done"}

\* the entities of the table: the whole table in field scope, each name in well scope
Entities ==
  IF data_scope = FIELD_SCOPE THEN {Str("FIELD")}
  ELSE {df.rows[p][ColPos(df, "Entity Name")] : p \in 1..Len(df.rows)}

\* the records of entity e
SeriesRows(e) ==
  IF data_scope = FIELD_SCOPE THEN 1..Len(df.rows)
  ELSE {p \in 1..Len(df.rows) : df.rows[p][ColPos(df, "Entity Name")] = e}

\* the columns of an entity's series
SeriesCols == {c \in 1..Len(df.columns) : df.columns[c] # "Entity Name"}

ObsMonth(p) == MonthOf(df.index[p])

\* the calendar months from the earliest to the latest timestamp of e
SpanOf(e) ==
  LET ms == {ObsMonth(p) : p \in SeriesRows(e)} IN SetMin(ms)..SetMax(ms)

\* the rows of the rate table that belong to e
OutRowsOf(e) ==
  IF data_scope = FIELD_SCOPE THEN 1..Len(df_mr.rows)
  ELSE {b \in 1..Len(df_mr.rows) : df_mr.rows[b][1] = e}

OutMonth(b) == MonthOf(df_mr.index[b])

\* column c of e has a value in month m
HasValue(e, c, m) ==
  \E p \in SeriesRows(e) : ObsMonth(p) = m /\ ~IsNaN(df.rows[p][c])

\* every column of e has a value in month m
Complete(e, m) == \A c \in SeriesCols : HasValue(e, c, m)

\* the months of the span, but the first, that are complete and follow a complete month
ValidMonths(e) ==
  {m \in SpanOf(e) : m - 1 \in SpanOf(e) /\ Complete(e, m) /\ Complete(e, m - 1)}

\* calendar days of month m (m = 0 is January 2022; 2024 is the leap year covered)
CalendarDays(m) ==
  IF m % 12 = 1 THEN (IF m \div 12 = 2 THEN 29 ELSE 28)
  ELSE <<31, 0, 31, 30, 31, 30, 31, 31, 30, 31, 30, 31>>[(m % 12) + 1]

Abs(x) == IF x < 0 THEN -x ELSE x

\* v hundredths is num / den rounded to 2 decimals
IsRounded(v, num, den) == 2 * Abs(100 * num - v * den) <= den

\* the value of column c that e last observed in month m (rows of equal timestamp
\* in file order)
Checkpoint(e, c, m) ==
  LET P == {p \in SeriesRows(e) : ObsMonth(p) = m /\ ~IsNaN(df.rows[p][c])}
      last == CHOOSE p \in P : \A q \in P :
                df.index[q] < df.index[p] \/ (df.index[q] = df.index[p] /\ q <= p)
  IN df.rows[last][c][2]

\* the position in df of the column that column j of the rate table was computed from
SourceCol(j) == ColPos(df, df_mr.columns[j])

CumulCols == {j \in 1..Len(df_mr.columns) : Contains(df_mr.columns[j], "CUML")}
PressureCols ==
  {j \in 1..Len(df_mr.columns) :
     Contains(df_mr.columns[j], "PRESSURE") /\ ~Contains(df_mr.columns[j], "CUML")}

-----------------------------------------------------------------------------
(* C1 *)

-----------------------------------------------------------------------------
(* C2 *)

\* C2: every value of a cumulative column in the row of month M is the
\* checkpoint at the end of M minus the checkpoint at the end of the month
\* before, divided by the calendar days of M and rounded to 2 decimals; a
\* February delta of 28 (non-leap) or 29 (leap) gives exactly 1.00.
C2_RateIsDeltaOverDays ==
  RatesDone =>
    \A e \in Entities : \A b \in OutRowsOf(e) : \A j \in CumulCols :
      LET m == OutMonth(b)
          c == SourceCol(j)
          delta == Checkpoint(e, c, m) - Checkpoint(e, c, m - 1)
          v == df_mr.rows[b][j]
      IN /\ HasValue(e, c, m) /\ HasValue(e, c, m - 1)
         /\ IsNum(v)
         /\ IsRounded(v[2], delta, CalendarDays(m))
         /\ (m % 12 = 1 /\ delta = CalendarDays(m)) => v[2] = 100

\* a rate table with a row for February 2023 whose delta is 28 and a row for
\* February 2024 whose delta is 29
C2_Witness ==
  /\ RatesDone
  /\ \A feb \in {13, 25} :
       \E e \in Entities : \E b \in OutRowsOf(e) : \E j \in CumulCols :
         /\ OutMonth(b) = feb
         /\ Checkpoint(e, SourceCol(j), feb) - Checkpoint(e, SourceCol(j), feb - 1)
              = (IF feb = 13 THEN 28 ELSE 29)
         /\ df_mr.rows[b][j] = Num(100)

-----------------------------------------------------------------------------
(* C3 *)

\* column c of e never decreases as time advances
NonDecreasing(e, c) ==
  \A p, q \in SeriesRows(e) :
    (df.index[p] < df.index[q] /\ IsNum(df.rows[p][c]) /\ IsNum(df.rows[q][c]))
      => df.rows[p][c][2] <= df.rows[q][c][2]

\* C3: when a cumulative column of an entity is non-decreasing in timestamp
\* order, every value of its rate column is >= 0.
C3_MonotoneGivesNonNegative ==
  RatesDone =>
    \A e \in Entities : \A j \in CumulCols :
      NonDecreasing(e, SourceCol(j)) =>
        \A b \in OutRowsOf(e) : IsNum(df_mr.rows[b][j]) /\ df_mr.rows[b][j][2] >= 0

\* a non-decreasing cumulative column with a positive rate in the output
C3_Witness ==
  /\ RatesDone
  /\ \E e \in Entities : \E j \in CumulCols :
       /\ NonDecreasing(e, SourceCol(j))
       /\ \E b \in OutRowsOf(e) : df_mr.rows[b][j][2] > 0

-----------------------------------------------------------------------------
(* C4 *)

\* the rows of the flattened table that belong to the well called name, in file order
FlatRowsOf(name) ==
  SortedSeq({r \in 1..Len(df_flat.rows) :
               df_flat.rows[r][ColPos(df_flat, "Entity Name")] = name})

\* the timestamps the records of a well must get: its own earliest DATE, floored
\* to midnight, plus its own Time offsets
OwnTimestamps(name) ==
  LET at == FlatRowsOf(name)
      dcol == ColPos(df_flat, "DATE")
      tcol == ColPos(df_flat, "Time")
      first == SetMin({df_flat.rows[at[k]][dcol][2] : k \in 1..Len(at)})
  IN [k \in 1..Len(at) |-> (first - (first % 2)) + df_flat.rows[at[k]][tcol][2]]

\* the timestamps of the records of a well in the indexed table
IndexOf(name) ==
  LET at == SortedSeq(SeriesRows(name)) IN [k \in 1..Len(at) |-> df.index[at[k]]]

\* the dated rows of a rate table g that carry the label name
TaggedRows(g, name) ==
  LET at == SortedSeq({b \in 1..Len(g.rows) : g.rows[b][1] = name})
  IN [k \in 1..Len(at) |-> <<g.index[at[k]], g.rows[at[k]]>>]

\* the rate table of the input with the records of every other well removed
AloneRates(name) ==
  calculate_well_monthly_rates(process_well_datetime(RowsOfEntity(df_flat, name)))

\* C4: in well scope the timestamps of a well come from its own origin and
\* its own Time offsets, and its output rows are those the computation gives
\* when the records of every other well are removed, so that they do not
\* depend on any other well's records.
C4_WellsAreIndependent ==
  (data_scope = WELL_SCOPE /\ pc \in {"indexed", "rates", "formatted", "done"}) =>
    \A e \in Entities :
      /\ IndexOf(e) = OwnTimestamps(e)
      /\ RatesDone => TaggedRows(df_mr, e) = TaggedRows(AloneRates(e), e)

\* two wells with output rows, the second one starting earlier than the first
C4_Witness ==
  /\ data_scope = WELL_SCOPE
  /\ RatesDone
  /\ \E a, b \in Entities :
       /\ a # b
       /\ OutRowsOf(a) # {} /\ OutRowsOf(b) # {}
       /\ SetMin(Range(IndexOf(b))) < SetMin(Range(IndexOf(a)))
       /\ df.rows[1][1] = a

-----------------------------------------------------------------------------
(* C5 *)

\* C5: flattening a table whose header is already flat returns the same
\* column names and the same columns.
C5_FlattenIsIdempotent ==
  pc = "reflat" => df_reflat = df_flat

-----------------------------------------------------------------------------
(* C6 *)

\* the records of e with a value of column c in month m
Samples(e, c, m) ==
  {p \in SeriesRows(e) : ObsMonth(p) = m /\ IsNum(df.rows[p][c])}

SampleSum(e, c, m) ==
  LET at == SortedSeq(Samples(e, c, m))
  IN SumSeq([k \in 1..Len(at) |-> df.rows[at[k]][c][2]])

\* C6: every value of a pressure column in the row of month M is the mean,
\* rounded to 2 decimals, of all the samples of the entity in M, and the first
\* month of the span has no row.
C6_PressureIsMonthlyMean ==
  RatesDone =>
    \A e \in Entities : \A b \in OutRowsOf(e) :
      /\ OutMonth(b) # SetMin(SpanOf(e))
      /\ \A j \in PressureCols :
           LET c == SourceCol(j)
               n == Cardinality(Samples(e, c, OutMonth(b)))
           IN /\ n > 0
              /\ IsNum(df_mr.rows[b][j])
              /\ IsRounded(df_mr.rows[b][j][2], SampleSum(e, c, OutMonth(b)), n)

\* an output row for a month with two pressure samples of different values
C6_Witness ==
  /\ RatesDone
  /\ \E e \in Entities : \E b \in OutRowsOf(e) : \E j \in PressureCols :
       \E p, q \in Samples(e, SourceCol(j), OutMonth(b)) :
         df.rows[p][SourceCol(j)] # df.rows[q][SourceCol(j)]

-----------------------------------------------------------------------------
(* C7 *)

\* the columns of the indexed table whose name holds one of the two markers
MarkedColumns ==
  SelectIdx(df.columns, {c \in SeriesCols : Contains(df.columns[c], "CUML")
                                            \/ Contains(df.columns[c], "PRESSURE")})

\* the columns of the rate table, the label column aside
RateColumns ==
  SelectIdx(df_mr.columns, {j \in 1..Len(df_mr.columns) : df_mr.columns[j] # "WELL_NAME"})

\* C7: the rate table holds exactly the input columns whose name contains
\* "CUML" or "PRESSURE", and a column matching neither marker never makes the
\* computation raise, whatever its values or data type.
C7_RolesByNameOnly ==
  /\ ~(pc = "failed" /\ err = "TypeError")
  /\ RatesDone => RateColumns = MarkedColumns

-----------------------------------------------------------------------------
(* C8 *)

\* the calendar months in which e has a record
RecordMonths(e) == {ObsMonth(p) : p \in SeriesRows(e)}

HasText(e) == \E p \in SeriesRows(e) : \E c \in SeriesCols : IsStr(df.rows[p][c])

\* C8: an entity whose records lie in fewer than 2 calendar months has no
\* output row and raises no error; in well scope the rows of the other
\* entities are produced all the same.
C8_DegenerateEntityIsEmpty ==
  /\ (pc = "failed" /\ err = "TypeError") =>
       \E e \in Entities : Cardinality(RecordMonths(e)) >= 2 /\ HasText(e)
  /\ RatesDone =>
       \A e \in Entities :
         Cardinality(RecordMonths(e)) < 2 =>
           /\ OutRowsOf(e) = {}
           /\ \A o \in Entities \ {e} : {OutMonth(b) : b \in OutRowsOf(o)} = ValidMonths(o)

\* a well with a single record beside a well that has output rows
C8_Witness ==
  /\ data_scope = WELL_SCOPE
  /\ RatesDone
  /\ \E e, o \in Entities :
       /\ Cardinality(SeriesRows(e)) = 1
       /\ OutRowsOf(e) = {}
       /\ OutRowsOf(o) # {}

-----------------------------------------------------------------------------
(* C9 *)

\* where the first record of a well stands in the file
FirstRecord(name) ==
  SetMin({r \in 1..Len(df_flat.rows) :
            df_flat.rows[r][ColPos(df_flat, "Entity Name")] = name})

\* row b of the rate table holds the values that the records of e give for its month
RowComesFrom(b, e) ==
  LET m == OutMonth(b)
  IN /\ m \in ValidMonths(e)
     /\ \A j \in CumulCols :
          IsRounded(df_mr.rows[b][j][2],
                    Checkpoint(e, SourceCol(j), m) - Checkpoint(e, SourceCol(j), m - 1),
                    CalendarDays(m))
     /\ \A j \in PressureCols :
          IsRounded(df_mr.rows[b][j][2], SampleSum(e, SourceCol(j), m),
                    Cardinality(Samples(e, SourceCol(j), m)))

ValidCount(e) == Cardinality(ValidMonths(e))

RECURSIVE TotalValid(_)
TotalValid(S) ==
  IF S = {} THEN 0 ELSE LET x == CHOOSE y \in S : TRUE IN ValidCount(x) + TotalValid(S \ {x})

\* C9: in well scope the rate table is the concatenation of the per-entity
\* results, WELL_NAME is its first column and names on every row the entity
\* whose records produced the row, and the row count is the sum of the
\* entities' row counts; in field scope there is no WELL_NAME column.
C9_WellNameLabelsRows ==
  /\ (RatesDone /\ data_scope = WELL_SCOPE) =>
       /\ df_mr.columns[1] = "WELL_NAME"
       /\ \A j \in 2..Len(df_mr.columns) : df_mr.columns[j] # "WELL_NAME"
       /\ \A b \in 1..Len(df_mr.rows) :
            /\ df_mr.rows[b][1] \in Entities
            /\ RowComesFrom(b, df_mr.rows[b][1])
       /\ \A b1, b2 \in 1..Len(df_mr.rows) :
            b1 < b2 => FirstRecord(df_mr.rows[b1][1]) <= FirstRecord(df_mr.rows[b2][1])
       /\ Len(df_mr.rows) = TotalValid(Entities)
       /\ pc \in {"formatted", "done"} =>
            df_out.columns[1] = "WELL_NAME" /\ df_out.rows = df_mr.rows
  /\ (RatesDone /\ data_scope = FIELD_SCOPE) =>
       /\ \A j \in 1..Len(df_mr.columns) : df_mr.columns[j] # "WELL_NAME"
       /\ pc \in {"formatted", "done"} =>
            \A j \in 1..Len(df_out.columns) : df_out.columns[j] # "WELL_NAME"

\* a rate table of two wells, each with rows of its own
C9_Witness ==
  /\ data_scope = WELL_SCOPE
  /\ RatesDone
  /\ \E a, b \in Entities : a # b /\ OutRowsOf(a) # {} /\ OutRowsOf(b) # {}

-----------------------------------------------------------------------------
(* C10 *)

Formatted == pc \in {"formatted", "done"}

\* the months between the first and the last row of e that have no row
MissingMonths(e) ==
  LET ms == {OutMonth(b) : b \in OutRowsOf(e)}
  IN IF ms = {} THEN {} ELSE (SetMin(ms)..SetMax(ms)) \ ms

-----------------------------------------------------------------------------
(* C11 *)

\* the state belongs to a call of process_all_data
BatchCall == csv = EmptyTable

\* the files on which a pipeline cannot succeed: missing, lacking a required
\* column, or holding text over two months
BadFiles ==
  {NoFile} \cup {File(TRUE, t) : t \in ShapeFaultTables \cup {TextTable, TextCumulTable}}

\* what the dict must hold for a scope: no key when the scope was not asked
\* for, None when its file is bad, a table otherwise
EntryIsRight(entry, asked, file) ==
  /\ (entry.kind = "absent") <=> ~asked
  /\ asked => ((entry.kind = "none") <=> (file \in BadFiles))
  /\ entry.kind = "table" => entry.table.rows # <<>>

\* C11: process_all_data never raises, whatever goes wrong with the field
\* file; the wells file is processed all the same when process_wells is true,
\* and the returned dict has a key for exactly the requested scopes, None for
\* a scope that failed and the result table for a scope that succeeded.
C11_BatchIsolatesFaults ==
  BatchCall =>
    /\ pc # "failed"
    /\ err = "none"
    /\ pc = "batch_wells" => EntryIsRight(results.field, process_field, field_csv)
    /\ pc = "returned" =>
         /\ EntryIsRight(results.field, process_field, field_csv)
         /\ EntryIsRight(results.wells, process_wells, wells_csv)
         /\ (process_wells /\ wells_csv \notin BadFiles) => "WELL_MR" \in written

\* the field file fails on a missing column or inside the rate computation,
\* and the wells file has been processed after it
C11_Witness ==
  /\ BatchCall
  /\ pc = "returned"
  /\ process_field
  /\ process_wells
  /\ field_csv.exists
  /\ results.field = None
  /\ results.wells.kind = "table"
  /\ "WELL_MR" \in written

-----------------------------------------------------------------------------
(* C12 *)

\* what the caller of process_all_data has for a scope whose file lacks a
\* required column
ShapeFaultEntries(scope) ==
  {ResultOf(RunCombined(File(TRUE, t), scope, save_intermediate)) : t \in ShapeFaultTables}

\* C12: at every entry point the caller can tell a missing input file from a
\* file that lacks a required column: gen_df_monthly_rates raises a different
\* exception, and process_all_data returns a different entry for the scope.
C12_MissingFileIsDistinct ==
  /\ (~BatchCall /\ pc = "failed") => (err = "FileNotFoundError" <=> ~file_found)
  /\ (BatchCall /\ pc = "returned" /\ process_field /\ field_csv = NoFile) =>
       results.field \notin ShapeFaultEntries(FIELD_SCOPE)
  /\ (BatchCall /\ pc = "returned" /\ process_wells /\ wells_csv = NoFile) =>
       results.wells \notin ShapeFaultEntries(WELL_SCOPE)

-----------------------------------------------------------------------------
(* C13 *)

\* C13: when a run on one input fails, the failure is raised to the caller
\* and no file has been written for that input, neither the monthly-rate file
\* nor the intermediate file, also with intermediate saving enabled.
C13_FailureWritesNothing ==
  (~BatchCall /\ pc = "failed") => (err # "none" /\ written = {})

-----------------------------------------------------------------------------
(* C14 *)

\* the months up to m in which column c of e has a value
ValueMonthsUpTo(e, c, m) == {k \in SpanOf(e) : k <= m /\ HasValue(e, c, k)}

\* the value of column c that e last observed on or before the end of month m
Carried(e, c, m) == Checkpoint(e, c, SetMax(ValueMonthsUpTo(e, c, m)))

-----------------------------------------------------------------------------
(* C15 *)

RECURSIVE FirstDayOf(_)
\* the day count of the first day of month m, from the lengths of the months
FirstDayOf(m) == IF m = 0 THEN 0 ELSE FirstDayOf(m - 1) + CalendarDays(m - 1)

\* midnight of the last day of the month before m
LastMidnightBefore(m) == 2 * (FirstDayOf(m) - 1)

\* C15: main._adjust_monthly_index and combined_processor.format_monthly_index
\* map an index entry of month M to the last calendar day of month M-1;
\* read_csv_file.format_monthly_index with months_offset = k maps it to the
\* first day of month M-k; each keeps the rows, their order and the distinctness
\* of the months.
C15_IndexDependsOnMonthOnly ==
  Formatted =>
    /\ df_out.rows = df_mr.rows
    /\ Len(df_out.index) = Len(df_mr.index)
    /\ \A b \in 1..Len(df_mr.index) :
         df_out.index[b] = IF impl = "read_csv_file"
                           THEN 2 * FirstDayOf(OutMonth(b) - months_offset)
                           ELSE LastMidnightBefore(OutMonth(b))
    /\ \A a, b \in 1..Len(df_mr.index) :
         /\ OutMonth(a) < OutMonth(b) => df_out.index[a] < df_out.index[b]
         /\ OutMonth(a) = OutMonth(b) => df_out.index[a] = df_out.index[b]

\* rows of January 2024 and March 2024, mapped to 31 December 2023 and to
\* 29 February 2024
C15_Witness ==
  /\ Formatted
  /\ impl # "read_csv_file"
  /\ \E a, b \in 1..Len(df_mr.index) :
       /\ OutMonth(a) = 24
       /\ OutMonth(b) = 26
       /\ df_out.index[a] = 2 * (DayOf(2024, 1, 1) - 1)
       /\ df_out.index[b] = 2 * DayOf(2024, 2, 29)

-----------------------------------------------------------------------------
(* C16 *)

\* the file holds one entity and every measure column is numeric
OneNumericEntity ==
  /\ Cardinality(Range(Column(df_flat, "Entity Name"))) = 1
  /\ \A c \in 1..Len(df_flat.columns) :
       df_flat.columns[c] \notin RequiredColumns => df_flat.dtypes[c] \in {"int64", "float64"}

\* a rate table without its label column
WithoutLabel(g) == SelectCols(g, {j \in 1..Len(g.columns) : g.columns[j] # "WELL_NAME"})

\* the field-scope rate function of a module
FieldRatesOf(who, f) ==
  IF who = "main" THEN calculate_field_monthly_rates(f)
  ELSE IF who = "combined" THEN calculate_monthly_rates_field(f)
  ELSE calculate_monthly_rates(f)

\* what the rate function of the other scope returns on the same file
OtherScopeRates ==
  IF data_scope = FIELD_SCOPE
  THEN WithoutLabel(calculate_well_monthly_rates(process_well_datetime(df_flat)))
  ELSE FieldRatesOf(impl, process_field_datetime(df_flat))

\* C16: on a table of one entity whose measure columns are all numeric
\* (integer or float), the well-scope rate computation gives the months, the
\* columns and the values of the field-scope rate computation, with the
\* WELL_NAME column added.
C16_FieldIsOneEntityWell ==
  (RatesDone /\ OneNumericEntity) =>
    /\ data_scope = WELL_SCOPE => df_mr.columns[1] = "WELL_NAME"
    /\ WithoutLabel(df_mr).index = OtherScopeRates.index
    /\ WithoutLabel(df_mr).columns = OtherScopeRates.columns
    /\ WithoutLabel(df_mr).rows = OtherScopeRates.rows

-----------------------------------------------------------------------------
(* C17 *)

\* the columns of the series that are neither cumulative nor a pressure
IgnoredCols ==
  {c \in SeriesCols : ~Contains(df.columns[c], "CUML") /\ ~Contains(df.columns[c], "PRESSURE")}

HasRow(e, m) == \E b \in OutRowsOf(e) : OutMonth(b) = m

\* C17: a month M has a row in an entity's output if and only if every column
\* of the entity's series, cumulative, pressure or ignored, has a month-end
\* checkpoint for M and for the month before M; a checkpoint missing in a single
\* column for M removes the rows of M and of M+1.
C17_RowValidityIsJoint ==
  RatesDone =>
    \A e \in Entities :
      /\ \A b \in OutRowsOf(e) : OutMonth(b) \in SpanOf(e)
      /\ \A m \in SpanOf(e) :
           /\ HasRow(e, m) <=>
                \A c \in SeriesCols : HasValue(e, c, m) /\ HasValue(e, c, m - 1)
           /\ \A c \in SeriesCols :
                ~HasValue(e, c, m) => (~HasRow(e, m) /\ ~HasRow(e, m + 1))

\* a month in which only an ignored column lacks a value, the cumulative and
\* pressure columns having values in it and in the month before: it has no row
C17_Witness ==
  /\ RatesDone
  /\ \E e \in Entities : \E m \in SpanOf(e) :
       /\ \E c \in IgnoredCols : ~HasValue(e, c, m)
       /\ \A c \in SeriesCols \ IgnoredCols : HasValue(e, c, m) /\ HasValue(e, c, m - 1)
       /\ \A c \in SeriesCols : HasValue(e, c, m - 1)
       /\ ~HasRow(e, m)

====
